---- MODULE Spec2Model ----
(***************************************************************************)
(* ActiveSamplingRobust (src/active_robust.py): the batch training loop    *)
(* run_batch_train, which records one flattened gradient per batch in the  *)
(* rows of the Jacobian buffer G, runs compress/aggregate/optimizer-step    *)
(* when a window is full, and books costs and counters in self.metrics;    *)
(* and run_main, which dispatches on train_mode and dumps the metrics.     *)
(*                                                                         *)
(* Collaborators (model, loader, optimizer, aggregator, compressor,        *)
(* scheduler, evaluate_classifier, clock) are modelled by what the loop    *)
(* observes of them.  A gradient is a vector of tags naming the global     *)
(* step that produced it; a run's clock and its aggregator cost the same   *)
(* on every call of the run (chosen at construction from small sets), so   *)
(* a run is determined by its configuration, its clock and its losses.     *)
(***************************************************************************)
EXTENDS Integers, Sequences, FiniteSets, TLC

\* ------------------------------------------------------------- bounds
MaxW == 2          \* window sizes 1..MaxW (num_batches)
MaxTrainLen == 3   \* batches per epoch 1..MaxTrainLen (len(train_loader))
MaxEpochs == 3     \* num_epochs 0..MaxEpochs
MaxD == 2          \* gradient lengths 1..MaxD; the model has MaxD parameters
MaxTime == 1       \* one clock difference is in 0..MaxTime
MaxGmIter == 1     \* iterations one aggregate call reports, 0..MaxGmIter
MaxRepeat == 1     \* n_repeat 0..MaxRepeat

\* the loss above which the run is stopped (1e3)
DivergeThreshold == 1000

None == "None"

\* self.G before the first batch (None)
NoBuffer == <<>>

VARIABLES
    \* configuration of the trainer, fixed at construction
    num_batches,   \* self.num_batches: the window size W
    train_len,     \* len(self.train_loader)
    num_epochs,    \* self.num_epochs
    C_J,           \* self.C_J: None or a compressor
    lrs,           \* self.lrs: None or a scheduler
    clock,         \* [iter, comp]: the time differences this run measures
    gar_cost,      \* [num_iter, agg_time]: what one aggregate call adds to
                   \* the aggregator's counters
    \* fields of the trainer
    epoch,         \* self.epoch
    G,             \* self.G: NoBuffer or a num_batches x d matrix
    metrics,       \* self.metrics
    gar,           \* counters of self.gar: [num_iter, agg_time]
    \* run_batch_train: position and locals
    pc,            \* "loop" (while test), "train" (for loop), "done", "error"
    batch_ix,      \* index of the next batch of the for loop
    ep,            \* epoch_grad_cost, epoch_agg_cost, epoch_gm_iter,
                   \* epoch_compression_cost
    g_i,           \* the gradient vector of the last batch
    train_loss,    \* the last evaluation loss
    \* what the collaborators saw
    calls,         \* the collaborator calls of the last step, in order
    agg_G,         \* the matrix handed to the last aggregate call
    lrs_steps,     \* number of lrs.step() calls
    params,        \* version of the model's parameters: the number of
                   \* optimizer.step() calls applied to them
    row_params,    \* per buffer row, the parameter version its gradient was
                   \* computed against (-1: never written)
    \* a second execution with the same configuration, batches, aggregator
    \* results and losses, and a clock of its own
    clock2, metrics2, ep2,
    \* run_main
    main_pc,       \* "loop", "dispatch", "training", "append", "exit", "raised"
    train_mode,    \* args.train_mode
    n_repeat,      \* args.n_repeat
    seed,          \* the loop variable of run_main
    results,       \* the list of metrics
    dumped         \* json.dump has written results

cfgvars == <<num_batches, train_len, num_epochs, C_J, lrs, clock, gar_cost>>
runvars == <<epoch, G, metrics, gar, pc, batch_ix, ep, g_i, train_loss, calls, agg_G, lrs_steps,
             params, row_params>>
twinvars == <<clock2, metrics2, ep2>>
mainvars == <<main_pc, train_mode, n_repeat, seed, results, dumped>>
vars == <<cfgvars, runvars, twinvars, mainvars>>

\* ------------------------------------------------------------ helpers
RECURSIVE SumSeq(_)
SumSeq(s) == IF s = <<>> THEN 0 ELSE Head(s) + SumSeq(Tail(s))

Has(s, x) == \E i \in 1..Len(s) : s[i] = x

IsPrefix(s, t) == Len(s) <= Len(t) /\ \A i \in 1..Len(s) : s[i] = t[i]

Times == 0..MaxTime
Clocks == [iter : Times, comp : Times]
GarCosts == [num_iter : 0..MaxGmIter, agg_time : Times]

\* an evaluation loss: a number (the threshold itself, which is not above
\* it, or the next number), NaN or an infinity
Losses == { [kind |-> "num", val |-> DivergeThreshold],
            [kind |-> "num", val |-> DivergeThreshold + 1],
            [kind |-> "nan", val |-> 0],
            [kind |-> "inf", val |-> 0] }
NoLoss == [kind |-> "none", val |-> 0]

TrainModes == {"vanilla", "distributed", "fed"}

\* ------------------------------------------- state after construction
InitMetrics ==
    [num_iter |-> 0, num_grad_steps |-> 0, num_opt_steps |-> 0, num_param |-> 0,
     epoch_grad_cost |-> <<>>, epoch_agg_cost |-> <<>>, epoch_gm_iter |-> <<>>,
     epoch_compression_cost |-> <<>>, jacobian_residual |-> <<>>,
     total_grad_cost |-> 0, total_agg_cost |-> 0, total_gm_iter |-> 0,
     total_compression_cost |-> 0, total_cost |-> 0, avg_gm_cost |-> <<>>]

InitEp ==
    [epoch_grad_cost |-> 0, epoch_agg_cost |-> 0, epoch_gm_iter |-> 0,
     epoch_compression_cost |-> 0]

\* TrainPipeline.__init__: epoch 0, no buffer, empty metrics
Construct ==
    /\ epoch = 0
    /\ G = NoBuffer
    /\ metrics = InitMetrics
    /\ gar = [num_iter |-> 0, agg_time |-> 0]
    /\ pc = "loop"
    /\ batch_ix = 0
    /\ ep = InitEp
    /\ g_i = <<>>
    /\ train_loss = NoLoss
    /\ calls = <<>>
    /\ agg_G = <<>>
    /\ lrs_steps = 0
    /\ params = 0
    /\ row_params = <<>>

Config ==
    /\ num_batches \in 1..MaxW
    /\ train_len \in 1..MaxTrainLen
    /\ num_epochs \in 0..MaxEpochs
    /\ C_J \in {None, "compressor"}
    /\ lrs \in {None, "scheduler"}
    /\ clock \in Clocks
    /\ C_J = None => clock.comp = 0
    /\ gar_cost \in GarCosts

\* the second execution is not run: it stays as constructed
TwinIdle ==
    /\ clock2 = clock
    /\ metrics2 = InitMetrics
    /\ ep2 = InitEp

\* run_batch_train called on a freshly constructed trainer
Init ==
    /\ Config
    /\ Construct
    /\ TwinIdle
    /\ main_pc = "training"
    /\ train_mode = "distributed"
    /\ n_repeat = 1
    /\ seed = 0
    /\ results = <<>>
    /\ dumped = FALSE

\* ------------------------------------------------ the collaborators
\* flatten_grads at global step s of a model with n parameters: the vector
\* is tagged with the step that produced it
FlattenGrads(s, n) == [j \in 1..n |-> 10 * (s + 1) + j]

\* C_J.normalized_residual after the k-th compress call
NormalizedResidual(k) == k

\* gar.aggregate adds its cost to the aggregator's counters
GarAfterAggregate(g) ==
    [num_iter |-> g.num_iter + gar_cost.num_iter,
     agg_time |-> g.agg_time + gar_cost.agg_time]

\* ------------------------------------------------ run_batch_train
\* a slip: the counters are read but not set back to 0
GarAfterRound_NoReset(g) == g

\* self.gar.agg_time = 0; self.gar.num_iter = 0, after the counters were read
GarAfterRound(g) == [num_iter |-> 0, agg_time |-> 0]

\* the parameter versions of the rows after the batch wrote row ix
RowParamsAfter(rp, ix, v) ==
    [i \in 1..num_batches |->
        IF i = ix + 1 THEN v ELSE IF rp = <<>> THEN -1 ELSE rp[i]]

Zeros(w, d) == [i \in 1..w |-> [j \in 1..d |-> 0]]

\* a slip: the row is taken from the aggregation index
RowIndex_Shifted(b) == (b + 1) % num_batches

RowIndex(b) == b % num_batches

AggIndex(b) == (b + 1) % num_batches

\* a slip: the test on batch_ix is dropped
IsFullCycle_NoZeroTest(b) == AggIndex(b) = 0

\* a slip: the window is tested on ix instead of agg_ix
IsFullCycle_OnRow(b) == RowIndex(b) = 0 /\ b # 0

\* a slip: the window is counted in steps of the run, not in batches of
\* the epoch
IsFullCycle_OnGlobalStep(b) == (metrics.num_iter + 1) % num_batches = 0

\* a slip: the test of the window is left out and every batch but the
\* first runs a round
IsFullCycle_EveryBatch(b) == b # 0

IsFullCycle(b) == AggIndex(b) = 0 /\ b # 0

\* self.G[ix, :] = g_i succeeds when g_i has the row's length or length 1
\* (numpy broadcasts it over the row) and raises ValueError otherwise
CanAssignRow(M, g) == Len(g) = Len(M[1]) \/ Len(g) = 1

SetRow(M, ix, g) ==
    [M EXCEPT ![ix + 1] = [j \in 1..Len(M[1]) |-> IF Len(g) = 1 THEN g[1] ELSE g[j]]]

\* a slip: the buffer is allocated anew on every batch
Allocated_EveryBatch(M, g) == Zeros(num_batches, Len(g))

\* the buffer the batch writes into: allocated on the first batch
Allocated(M, g) == IF M = NoBuffer THEN Zeros(num_batches, Len(g)) ELSE M

\* a slip: the aggregation cost is taken from the batch's own time
\* difference instead of the aggregator's agg_time
EpAfterBatch_ClockAsAggTime(e, clk, fire) ==
    LET e1 == [e EXCEPT !.epoch_grad_cost = @ + clk.iter]
        after == GarAfterAggregate(gar)
    IN  IF ~fire THEN e1
        ELSE [e1 EXCEPT !.epoch_compression_cost =
                            IF C_J # None THEN @ + clk.comp ELSE @,
                        !.epoch_gm_iter = @ + after.num_iter,
                        !.epoch_agg_cost = @ + clk.iter]

\* the epoch accumulators after a batch measured by the clock clk
EpAfterBatch(e, clk, fire) ==
    LET e1 == [e EXCEPT !.epoch_grad_cost = @ + clk.iter]
        after == GarAfterAggregate(gar)
    IN  IF ~fire THEN e1
        ELSE [e1 EXCEPT !.epoch_compression_cost =
                            IF C_J # None THEN @ + clk.comp ELSE @,
                        !.epoch_gm_iter = @ + after.num_iter,
                        !.epoch_agg_cost = @ + after.agg_time]

\* a slip: num_opt_steps += 1 is outside the block of the round and runs
\* on every batch
CountBatch_StepCountedPerBatch(m, g, alloc, fire) ==
    LET m1 == [m EXCEPT !.num_iter = @ + 1,
                        !.num_grad_steps = @ + 1,
                        !.num_param = IF alloc THEN Len(g) ELSE @,
                        !.num_opt_steps = @ + 1]
    IN  IF ~fire THEN m1
        ELSE [m1 EXCEPT !.jacobian_residual =
                            IF C_J # None
                            THEN Append(@, NormalizedResidual(m.num_opt_steps + 1))
                            ELSE @]

\* the counters a batch advances
CountBatch(m, g, alloc, fire) ==
    LET m1 == [m EXCEPT !.num_iter = @ + 1,
                        !.num_grad_steps = @ + 1,
                        !.num_param = IF alloc THEN Len(g) ELSE @]
    IN  IF ~fire THEN m1
        ELSE [m1 EXCEPT !.jacobian_residual =
                            IF C_J # None
                            THEN Append(@, NormalizedResidual(m.num_opt_steps + 1))
                            ELSE @,
                        !.num_opt_steps = @ + 1]

\* the appends that close the body of the for loop
AppendSeries(m, e) ==
    [m EXCEPT !.epoch_grad_cost = Append(@, e.epoch_grad_cost),
              !.epoch_agg_cost = Append(@, e.epoch_agg_cost),
              !.epoch_gm_iter =
                  IF e.epoch_gm_iter > 0 THEN Append(@, e.epoch_gm_iter) ELSE @,
              !.epoch_compression_cost =
                  IF e.epoch_compression_cost > 0
                  THEN Append(@, e.epoch_compression_cost) ELSE @]

\* a slip: total_cost leaves the compression cost out
Totals_CostWithoutCompression(m) ==
    LET tg == SumSeq(m.epoch_grad_cost)
        ta == SumSeq(m.epoch_agg_cost)
        ti == SumSeq(m.epoch_gm_iter)
        tc == SumSeq(m.epoch_compression_cost)
    IN  [m EXCEPT !.total_grad_cost = tg,
                  !.total_agg_cost = ta,
                  !.total_gm_iter = ti,
                  !.total_compression_cost = tc,
                  !.total_cost = tg + ta,
                  !.avg_gm_cost = IF ti # 0 THEN <<ta, ti>> ELSE @]

\* a slip: the average is written without the test total_gm_iter != 0
Totals_AvgUnguarded(m) ==
    LET tg == SumSeq(m.epoch_grad_cost)
        ta == SumSeq(m.epoch_agg_cost)
        ti == SumSeq(m.epoch_gm_iter)
        tc == SumSeq(m.epoch_compression_cost)
    IN  [m EXCEPT !.total_grad_cost = tg,
                  !.total_agg_cost = ta,
                  !.total_gm_iter = ti,
                  !.total_compression_cost = tc,
                  !.total_cost = tg + ta + tc,
                  !.avg_gm_cost = <<ta, ti>>]

\* the totals written at the end of an epoch; avg_gm_cost is the ratio
\* <<total_agg_cost, total_gm_iter>>
Totals(m) ==
    LET tg == SumSeq(m.epoch_grad_cost)
        ta == SumSeq(m.epoch_agg_cost)
        ti == SumSeq(m.epoch_gm_iter)
        tc == SumSeq(m.epoch_compression_cost)
    IN  [m EXCEPT !.total_grad_cost = tg,
                  !.total_agg_cost = ta,
                  !.total_gm_iter = ti,
                  !.total_compression_cost = tc,
                  !.total_cost = tg + ta + tc,
                  !.avg_gm_cost = IF ti # 0 THEN <<ta, ti>> ELSE @]

Diverges(loss) ==
    \/ (loss.kind = "num" /\ loss.val > DivergeThreshold)
    \/ loss.kind = "nan"
    \/ loss.kind = "inf"

\* a slip: self.epoch += 1 is left out
NextEpoch_NoIncrement(e, loss) == IF Diverges(loss) THEN num_epochs ELSE e

\* a slip: only the threshold is tested, NaN and infinities pass
NextEpoch_ThresholdOnly(e, loss) ==
    (IF loss.kind = "num" /\ loss.val > DivergeThreshold THEN num_epochs ELSE e) + 1

NextEpoch(e, loss) == (IF Diverges(loss) THEN num_epochs ELSE e) + 1

BatchCalls == <<"forward", "zero_grad", "backward", "flatten_grads">>

\* a slip: the optimizer steps before the aggregate is written into the model
RoundCalls_StepBeforeDistribute ==
    (IF C_J # None THEN <<"compress">> ELSE <<>>)
    \o <<"aggregate", "reset_gar", "zero_grad", "step", "dist_grads_to_model",
         "num_opt_steps">>

RoundCalls ==
    (IF C_J # None THEN <<"compress">> ELSE <<>>)
    \o <<"aggregate", "reset_gar", "zero_grad", "dist_grads_to_model", "step",
         "num_opt_steps">>

\* while self.epoch < self.num_epochs: the head of an epoch
EpochStartStep ==
    /\ main_pc = "training"
    /\ pc = "loop"
    /\ epoch < num_epochs
    /\ ep' = InitEp
    /\ batch_ix' = 0
    /\ calls' = <<>>
    /\ pc' = "train"
    /\ UNCHANGED <<cfgvars, epoch, G, metrics, gar, g_i, train_loss, agg_G, lrs_steps,
                   params, row_params>>

\* one pass of the body of the for loop, on a gradient of length n
BatchStep(n) ==
    /\ main_pc = "training"
    /\ pc = "train"
    /\ batch_ix < train_len
    /\ LET g == FlattenGrads(metrics.num_iter, n)
           alloc == (G = NoBuffer)
           M == Allocated(G, g)
           fire == IsFullCycle(batch_ix)
       IN  /\ g_i' = g
           /\ IF CanAssignRow(M, g)
              THEN /\ G' = SetRow(M, RowIndex(batch_ix), g)
                   /\ ep' = EpAfterBatch(ep, clock, fire)
                   /\ metrics' = AppendSeries(CountBatch(metrics, g, alloc, fire), ep')
                   /\ agg_G' = IF fire THEN G' ELSE agg_G
                   /\ gar' = IF fire THEN GarAfterRound(GarAfterAggregate(gar)) ELSE gar
                   /\ row_params' = RowParamsAfter(row_params, RowIndex(batch_ix), params)
                   /\ params' = IF fire THEN params + 1 ELSE params
                   /\ calls' = BatchCalls \o (IF fire THEN RoundCalls ELSE <<>>)
                   /\ batch_ix' = batch_ix + 1
                   /\ pc' = "train"
              ELSE /\ G' = M
                   /\ metrics' = CountBatch(metrics, g, alloc, FALSE)
                   /\ calls' = BatchCalls
                   /\ pc' = "error"
                   /\ UNCHANGED <<ep, agg_G, gar, batch_ix, params, row_params>>
    /\ UNCHANGED <<cfgvars, epoch, train_loss, lrs_steps>>

\* the end of an epoch: evaluation, divergence check, schedule, totals
EpochEndStep(loss) ==
    /\ main_pc = "training"
    /\ pc = "train"
    /\ batch_ix = train_len
    /\ train_loss' = loss
    /\ epoch' = NextEpoch(epoch, loss)
    /\ lrs_steps' = IF lrs # None THEN lrs_steps + 1 ELSE lrs_steps
    /\ metrics' = Totals(metrics)
    /\ calls' = <<"evaluate_classifier">> \o (IF lrs # None THEN <<"lrs.step">> ELSE <<>>)
    /\ pc' = "loop"
    /\ UNCHANGED <<cfgvars, G, gar, batch_ix, ep, g_i, agg_G, params, row_params>>

\* the while test fails: run_batch_train returns
ReturnStep ==
    /\ main_pc = "training"
    /\ pc = "loop"
    /\ epoch >= num_epochs
    /\ pc' = "done"
    /\ UNCHANGED <<cfgvars, epoch, G, metrics, gar, batch_ix, ep, g_i, train_loss,
                   calls, agg_G, lrs_steps, params, row_params>>

EpochStart == EpochStartStep /\ UNCHANGED <<twinvars, mainvars>>

Batch == BatchStep(MaxD) /\ UNCHANGED <<twinvars, mainvars>>

EpochEnd == (\E loss \in Losses : EpochEndStep(loss)) /\ UNCHANGED <<twinvars, mainvars>>

Return == ReturnStep /\ UNCHANGED <<twinvars, mainvars>>

Next == EpochStart \/ Batch \/ EpochEnd \/ Return

Spec == Init /\ [][Next]_vars

\* run_batch_train is sequential code: whenever a step is possible the
\* interpreter takes one
SpecLive == Init /\ [][Next]_vars /\ WF_vars(Next)

\* -------------------------------- a batch on a gradient of any length
\* the body of the for loop when flatten_grads may return a vector of any
\* length in 1..MaxD, whatever the length the buffer was allocated with
BatchAnyLength ==
    (\E n \in 1..MaxD : BatchStep(n)) /\ UNCHANGED <<twinvars, mainvars>>

NextDim == EpochStart \/ BatchAnyLength \/ EpochEnd \/ Return

SpecDim == Init /\ [][NextDim]_vars

\* ------------------------------------------------- two executions
\* run_batch_train executed twice on the same configuration, batches,
\* aggregator results and evaluation losses; the second execution reads a
\* clock of its own (time.time() around the batch and around compress)
InitTwin ==
    /\ Config
    /\ Construct
    /\ clock2 \in Clocks
    /\ C_J = None => clock2.comp = 0
    /\ metrics2 = InitMetrics
    /\ ep2 = InitEp
    /\ main_pc = "training"
    /\ train_mode = "distributed"
    /\ n_repeat = 1
    /\ seed = 0
    /\ results = <<>>
    /\ dumped = FALSE

TwinEpochStart ==
    /\ EpochStartStep
    /\ ep2' = InitEp
    /\ UNCHANGED <<clock2, metrics2, mainvars>>

TwinBatch ==
    /\ BatchStep(MaxD)
    /\ LET g == FlattenGrads(metrics.num_iter, MaxD)
           fire == IsFullCycle(batch_ix)
       IN  /\ ep2' = EpAfterBatch(ep2, clock2, fire)
           /\ metrics2' = AppendSeries(CountBatch(metrics2, g, G = NoBuffer, fire), ep2')
    /\ UNCHANGED <<clock2, mainvars>>

TwinEpochEnd ==
    /\ \E loss \in Losses : EpochEndStep(loss)
    /\ metrics2' = Totals(metrics2)
    /\ UNCHANGED <<clock2, ep2, mainvars>>

TwinReturn == ReturnStep /\ UNCHANGED <<twinvars, mainvars>>

NextTwin == TwinEpochStart \/ TwinBatch \/ TwinEpochEnd \/ TwinReturn

SpecTwin == InitTwin /\ [][NextTwin]_vars

\* ------------------------------------------------------- run_main
InitMain ==
    /\ Config
    /\ Construct
    /\ TwinIdle
    /\ main_pc = "loop"
    /\ train_mode \in TrainModes
    /\ n_repeat \in 0..MaxRepeat
    /\ seed = 0
    /\ results = <<>>
    /\ dumped = FALSE

\* for seed in np.arange(args.n_repeat): a trainer is constructed
NewTrainer ==
    /\ main_pc = "loop"
    /\ seed < n_repeat
    /\ epoch' = 0
    /\ G' = NoBuffer
    /\ metrics' = InitMetrics
    /\ gar' = [num_iter |-> 0, agg_time |-> 0]
    /\ pc' = "loop"
    /\ batch_ix' = 0
    /\ ep' = InitEp
    /\ g_i' = <<>>
    /\ train_loss' = NoLoss
    /\ calls' = <<>>
    /\ agg_G' = <<>>
    /\ lrs_steps' = 0
    /\ params' = 0
    /\ row_params' = <<>>
    /\ main_pc' = "dispatch"
    /\ UNCHANGED <<cfgvars, twinvars, train_mode, n_repeat, seed, results, dumped>>

\* train_mode == 'vanilla': run_train seeds the generators and returns
RunTrain ==
    /\ main_pc = "dispatch"
    /\ train_mode = "vanilla"
    /\ main_pc' = "append"
    /\ UNCHANGED <<cfgvars, runvars, twinvars, train_mode, n_repeat, seed, results, dumped>>

\* train_mode == 'distributed': run_batch_train is entered
RunBatchTrain ==
    /\ main_pc = "dispatch"
    /\ train_mode = "distributed"
    /\ main_pc' = "training"
    /\ UNCHANGED <<cfgvars, runvars, twinvars, train_mode, n_repeat, seed, results, dumped>>

\* any other train_mode: raise NotImplementedError
RaiseNotImplemented ==
    /\ main_pc = "dispatch"
    /\ train_mode \notin {"vanilla", "distributed"}
    /\ main_pc' = "raised"
    /\ UNCHANGED <<cfgvars, runvars, twinvars, train_mode, n_repeat, seed, results, dumped>>

\* results.append(trainer.metrics), after the trainer's method returned
AppendResults ==
    /\ \/ main_pc = "append"
       \/ (main_pc = "training" /\ pc = "done")
    /\ results' = Append(results, metrics)
    /\ seed' = seed + 1
    /\ main_pc' = "loop"
    /\ UNCHANGED <<cfgvars, runvars, twinvars, train_mode, n_repeat, dumped>>

\* the loop over the seeds is over: json.dump(results, f)
DumpResults ==
    /\ main_pc = "loop"
    /\ seed >= n_repeat
    /\ dumped' = TRUE
    /\ main_pc' = "exit"
    /\ UNCHANGED <<cfgvars, runvars, twinvars, train_mode, n_repeat, seed, results>>

NextMain ==
    \/ NewTrainer \/ RunTrain \/ RunBatchTrain \/ RaiseNotImplemented
    \/ EpochStart \/ Batch \/ EpochEnd \/ Return
    \/ AppendResults \/ DumpResults

SpecMain == InitMain /\ [][NextMain]_vars

\* ------------------------------------------------------------ claims
\* the batch processed by the last step, when that step was a batch
JustRecorded == pc = "train" /\ batch_ix > 0

LastBatch == batch_ix - 1

\* the last step made an aggregate call and, after it, an optimizer step
RoundRan ==
    \E i, j \in 1..Len(calls) : i < j /\ calls[i] = "aggregate" /\ calls[j] = "step"

NoRound == ~Has(calls, "aggregate") /\ ~Has(calls, "step")

\* the aggregation rounds of one full epoch
RoundsPerEpoch ==
    Cardinality({b \in 0..(train_len - 1) : (b + 1) % num_batches = 0 /\ b # 0})

SeriesKeys == {"epoch_grad_cost", "epoch_agg_cost", "epoch_gm_iter",
               "epoch_compression_cost", "jacobian_residual"}

\* C1: for every window size W and every batch index b of an epoch, an
\* aggregation round (aggregate, then the optimizer step) runs on batch b
\* if and only if (b + 1) mod W = 0 and b # 0.
C1_RoundIffFullCycle ==
    JustRecorded =>
        IF (LastBatch + 1) % num_batches = 0 /\ LastBatch # 0
        THEN RoundRan
        ELSE NoRound

\* C1 witness: with W = 1 batch 0 was skipped and batch 1 ran a round
C1_Witness ==
    JustRecorded /\ num_batches = 1 /\ LastBatch = 1 /\ RoundRan
    /\ metrics.num_opt_steps = 1

\* C2 as stated: for every W >= 1 and a first epoch of at least W batches,
\* the first aggregation round of the run happens right after the gradient
\* of step W-1 is recorded: no round before W batches, one from then on.
C2_Original ==
    train_len >= num_batches =>
        ((metrics.num_opt_steps >= 1) <=> (metrics.num_iter >= num_batches))

\* C2 amended: for every W >= 2 and a first epoch of at least W batches the
\* first round happens right after step W-1 is recorded; for W = 1 and a
\* first epoch of at least 2 batches it happens right after step 1.
C2_FirstRoundAfterWindow ==
    /\ (num_batches >= 2 /\ train_len >= num_batches) =>
          /\ (metrics.num_opt_steps >= 1) <=> (metrics.num_iter >= num_batches)
          /\ (JustRecorded /\ metrics.num_iter = num_batches) => RoundRan
    /\ (num_batches = 1 /\ train_len >= 2) =>
          /\ (metrics.num_opt_steps >= 1) <=> (metrics.num_iter >= 2)
          /\ (JustRecorded /\ metrics.num_iter = 2) => RoundRan

\* C2 witness: W = 2, the second batch of the run has just run the first round
C2_Witness ==
    JustRecorded /\ num_batches = 2 /\ metrics.num_iter = 2 /\ RoundRan
    /\ metrics.num_opt_steps = 1

\* C3 as stated: when run_batch_train returns, after the last epoch or after
\* a divergence, self.epoch equals num_epochs.
C3_EpochAtReturn == pc = "done" => epoch = num_epochs

\* C4: once the evaluation loss of an epoch is > 1e3, NaN or infinite, the
\* only step left is the return of run_batch_train: no batch is processed,
\* counters and buffer stay as they are, nothing is raised; and no step of
\* the run removes or changes an entry of a metrics series.
C4_StopOnDivergence ==
    [][ /\ Diverges(train_loss) =>
              /\ pc' = "done"
              /\ metrics' = metrics
              /\ G' = G
        /\ \A k \in SeriesKeys : IsPrefix(metrics[k], metrics'[k]) ]_vars

\* C4 witness: the second of three epochs diverged; the run returned with
\* the entries of both epochs and without the batches of the third
C4_Witness ==
    /\ pc = "done"
    /\ Diverges(train_loss)
    /\ num_epochs = 3
    /\ train_len >= 2
    /\ metrics.num_iter = 2 * train_len
    /\ Len(metrics.epoch_grad_cost) = 2 * train_len

C6_SeriesPerEpoch ==
    (pc = "loop" /\ ~Diverges(train_loss)) =>
        /\ Len(metrics.epoch_grad_cost) = epoch
        /\ Len(metrics.epoch_agg_cost) = epoch
        /\ \A i \in 1..Len(metrics.epoch_grad_cost) :
               metrics.epoch_grad_cost[i] = train_len * clock.iter
        /\ \A i \in 1..Len(metrics.epoch_agg_cost) :
               metrics.epoch_agg_cost[i] = RoundsPerEpoch * gar_cost.agg_time

\* C7 as stated: after every epoch total_gm_iter is the sum of the num_iter
\* reported over all aggregation rounds so far and total_agg_cost the sum of
\* the agg_time reported over the same rounds.
C7_TotalsCountOnce ==
    (pc = "loop" /\ train_loss # NoLoss) =>
        /\ metrics.total_gm_iter = metrics.num_opt_steps * gar_cost.num_iter
        /\ metrics.total_agg_cost = metrics.num_opt_steps * gar_cost.agg_time

\* the metrics that hold no time difference measured by run_batch_train
ClockFreeKeys == {"num_iter", "num_grad_steps", "num_opt_steps", "num_param",
                  "epoch_gm_iter", "total_gm_iter", "jacobian_residual",
                  "epoch_agg_cost", "total_agg_cost", "avg_gm_cost"}

C9_NoSilentNoOp ==
    (dumped /\ num_epochs > 0) =>
        \A i \in 1..Len(results) : results[i].num_iter > 0

\* C10 as stated: once the buffer is allocated with dimension d, recording
\* a later gradient vector whose length differs from d raises a fatal error
\* and leaves every row as it was; it is never stored.
C10_RejectOtherLength ==
    [][ (/\ G # NoBuffer
         /\ metrics'.num_iter = metrics.num_iter + 1
         /\ Len(g_i') # Len(G[1])) =>
            (pc' = "error" /\ G' = G) ]_vars

\* an epoch boundary has just been passed: the evaluation, the divergence
\* test and the totals of an epoch are done
AfterEpochEnd == pc = "loop" /\ train_loss # NoLoss

\* C11: after every epoch boundary total_cost is total_grad_cost +
\* total_agg_cost + total_compression_cost, and each of the three totals is
\* the sum of the entries its series (epoch_grad_cost, epoch_agg_cost,
\* epoch_compression_cost) holds at that moment.
C11_TotalsAreSums ==
    AfterEpochEnd =>
        /\ metrics.total_cost = metrics.total_grad_cost + metrics.total_agg_cost
                                + metrics.total_compression_cost
        /\ metrics.total_grad_cost = SumSeq(metrics.epoch_grad_cost)
        /\ metrics.total_agg_cost = SumSeq(metrics.epoch_agg_cost)
        /\ metrics.total_compression_cost = SumSeq(metrics.epoch_compression_cost)

\* C11 witness: the second epoch of a run with a compressor has ended and
\* all three totals are positive
C11_Witness ==
    /\ AfterEpochEnd
    /\ epoch = 2
    /\ C_J # None
    /\ metrics.total_grad_cost > 0
    /\ metrics.total_agg_cost > 0
    /\ metrics.total_compression_cost > 0
    /\ metrics.total_cost > metrics.total_grad_cost + metrics.total_agg_cost

\* C12 as stated: at an epoch boundary the learning-rate schedule is
\* stepped only when the divergence condition does not hold; after an
\* evaluation loss > 1e3, NaN or infinite the schedule's step is not
\* invoked for that epoch.
C12_NoLrsStepOnDivergence ==
    (AfterEpochEnd /\ Diverges(train_loss)) => ~Has(calls, "lrs.step")

\* the aggregation rounds of the batches 0..b-1 of one epoch
RoundsBefore(b) ==
    Cardinality({c \in 0..(b - 1) : (c + 1) % num_batches = 0 /\ c # 0})

\* C13: the num_iter and agg_time of each aggregation round are added to
\* epoch_gm_iter and epoch_agg_cost exactly once: the counters of the
\* aggregator are 0 again after every round, so every aggregate call after
\* the first starts from 0, and the accumulators of an epoch hold one
\* round's values per round of that epoch.
C13_RoundCountedOnce ==
    /\ metrics.num_opt_steps >= 1 => gar = [num_iter |-> 0, agg_time |-> 0]
    /\ pc = "train" =>
          /\ ep.epoch_gm_iter = RoundsBefore(batch_ix) * gar_cost.num_iter
          /\ ep.epoch_agg_cost = RoundsBefore(batch_ix) * gar_cost.agg_time

\* C13 witness: the second round of one epoch has run with an aggregator
\* that reports one iteration and one time unit per call
C13_Witness ==
    /\ JustRecorded
    /\ RoundRan
    /\ RoundsBefore(batch_ix) = 2
    /\ gar_cost = [num_iter |-> 1, agg_time |-> 1]
    /\ ep.epoch_gm_iter = 2
    /\ ep.epoch_agg_cost = 2

\* the calls of the last step after the four calls every batch makes
CallsAfterGradient == SubSeq(calls, Len(BatchCalls) + 1, Len(calls))

\* C14: every aggregation round runs, in this order: compress (only with a
\* compressor, and then exactly one normalized_residual is appended to
\* jacobian_residual), aggregate, the reset of the aggregator's counters,
\* the zeroing of the model's gradients, the distribution of the aggregate
\* into the model, the optimizer step, num_opt_steps += 1. A batch without
\* an aggregate call has no optimizer step, and without a compressor
\* jacobian_residual is never appended to.
C14_RoundOrder ==
    /\ JustRecorded =>
          \/ CallsAfterGradient = <<>>
          \/ /\ C_J = None
             /\ CallsAfterGradient =
                    <<"aggregate", "reset_gar", "zero_grad",
                      "dist_grads_to_model", "step", "num_opt_steps">>
          \/ /\ C_J # None
             /\ CallsAfterGradient =
                    <<"compress", "aggregate", "reset_gar", "zero_grad",
                      "dist_grads_to_model", "step", "num_opt_steps">>
    /\ Has(calls, "step") => Has(calls, "aggregate")
    /\ Len(metrics.jacobian_residual) =
           IF C_J # None THEN metrics.num_opt_steps ELSE 0
    /\ params = metrics.num_opt_steps

\* C14 witness: with a compressor the second round of the run has run and
\* jacobian_residual holds two entries
C14_Witness ==
    /\ JustRecorded
    /\ C_J # None
    /\ Has(calls, "compress")
    /\ RoundRan
    /\ metrics.num_opt_steps = 2
    /\ Len(metrics.jacobian_residual) = 2

\* C15: avg_gm_cost is written at an epoch boundary if and only if
\* total_gm_iter # 0 at that boundary, and is then the ratio
\* total_agg_cost / total_gm_iter; with an aggregator that always reports
\* num_iter = 0 the series epoch_gm_iter stays empty, total_gm_iter stays 0
\* and avg_gm_cost is never written.
C15_AvgGmCost ==
    [][ /\ (pc = "train" /\ pc' = "loop") =>
              IF metrics'.total_gm_iter # 0
              THEN metrics'.avg_gm_cost =
                       <<metrics'.total_agg_cost, metrics'.total_gm_iter>>
              ELSE metrics'.avg_gm_cost = metrics.avg_gm_cost
        /\ ~(pc = "train" /\ pc' = "loop") =>
              metrics'.avg_gm_cost = metrics.avg_gm_cost
        /\ gar_cost.num_iter = 0 =>
              /\ metrics'.epoch_gm_iter = <<>>
              /\ metrics'.total_gm_iter = 0
              /\ metrics'.avg_gm_cost = <<>> ]_vars

\* C15 witness: an epoch with rounds of a positive agg_time has ended and
\* the ratio is written
C15_Witness ==
    /\ AfterEpochEnd
    /\ metrics.total_gm_iter >= 2
    /\ metrics.total_agg_cost >= 2
    /\ metrics.avg_gm_cost = <<metrics.total_agg_cost, metrics.total_gm_iter>>

\* C16: the buffer is allocated once per run, on the first batch processed
\* (self.G is None), with W rows and d columns; afterwards it is never
\* allocated again or cleared, across batches and epochs, and num_param is
\* written only at that allocation. Every batch overwrites the one row
\* batch_ix mod W and leaves the other W - 1 rows as they were.
C16_BufferAllocatedOnce ==
    [][ /\ (G = NoBuffer /\ G' # NoBuffer) =>
              /\ metrics.num_iter = 0
              /\ Len(G') = num_batches
              /\ \A i \in 1..num_batches : Len(G'[i]) = Len(g_i')
              /\ metrics'.num_param = Len(g_i')
              /\ \A i \in 1..num_batches :
                     i # (batch_ix % num_batches) + 1 =>
                         G'[i] = [j \in 1..Len(g_i') |-> 0]
        /\ G # NoBuffer =>
              /\ G' # NoBuffer
              /\ Len(G') = Len(G)
              /\ metrics'.num_param = metrics.num_param
              /\ \A i \in 1..Len(G) :
                     i # (batch_ix % num_batches) + 1 => G'[i] = G[i]
        /\ metrics'.num_iter # metrics.num_iter =>
              G'[(batch_ix % num_batches) + 1] = g_i' ]_vars

\* C16 witness: W = 2; the first batch of the second epoch has overwritten
\* row 0 and row 1 still holds the gradient of the first epoch's batch 1
C16_Witness ==
    /\ JustRecorded
    /\ num_batches = 2
    /\ epoch = 1
    /\ LastBatch = 0
    /\ G[1] = g_i
    /\ G[2] = FlattenGrads(1, MaxD)
    /\ metrics.num_param = MaxD

\* C17: run_batch_train returns for every num_epochs >= 0 and every finite
\* loader: every pass of the while loop raises self.epoch, at most
\* num_epochs epochs are run, and an epoch once started processes all its
\* batches; the divergence test is the only early exit and is made at the
\* epoch boundary only.
C17_Terminates ==
    /\ <>(pc = "done")
    /\ [][ /\ (pc = "train" /\ pc' = "loop") =>
                 /\ batch_ix = train_len
                 /\ epoch' > epoch
           /\ (pc = "train" /\ batch_ix < train_len) =>
                 /\ pc' = "train"
                 /\ batch_ix' = batch_ix + 1
                 /\ epoch' = epoch
           /\ (pc = "loop" /\ pc' = "train") => epoch < num_epochs
           /\ pc' = "done" => pc = "loop" /\ epoch >= num_epochs
           /\ metrics'.num_iter <= num_epochs * train_len ]_vars

\* C17 witness: a run of three epochs of three batches has returned
\* without a divergence
C17_Witness ==
    /\ pc = "done"
    /\ num_epochs = 3
    /\ train_len = 3
    /\ ~Diverges(train_loss)
    /\ epoch = 3
    /\ metrics.num_iter = 9

\* C18: at every batch boundary of a run that starts with all counters 0,
\* num_iter = num_grad_steps = the number of batches processed so far,
\* num_opt_steps = the number of aggregate calls so far, and
\* num_opt_steps * W <= num_grad_steps.
C18_CountersAgree ==
    [][ /\ pc' = "train" =>
              /\ metrics'.num_iter = epoch' * train_len + batch_ix'
              /\ metrics'.num_grad_steps = metrics'.num_iter
              /\ metrics'.num_opt_steps =
                     epoch' * RoundsPerEpoch + RoundsBefore(batch_ix')
              /\ metrics'.num_opt_steps * num_batches <= metrics'.num_grad_steps
        /\ metrics'.num_opt_steps =
               metrics.num_opt_steps
               + (IF metrics'.num_iter # metrics.num_iter /\ Has(calls', "aggregate")
                  THEN 1 ELSE 0) ]_vars

\* C18 witness: W = 2, the last batch of the second epoch of three batches
\* each: six batches, two aggregate calls
C18_Witness ==
    /\ pc = "train"
    /\ num_batches = 2
    /\ train_len = 3
    /\ epoch = 1
    /\ batch_ix = 3
    /\ metrics.num_iter = 6
    /\ metrics.num_opt_steps = 2

\* C19: whenever aggregate is invoked on batch b of an epoch, the W rows of
\* the buffer hold the gradients of the W most recent batches b-W+1 .. b of
\* that same epoch, each once: no row is stale and no gradient of an earlier
\* epoch is part of an aggregation of a later epoch.
C19_WindowIsCurrent ==
    (JustRecorded /\ Has(calls, "aggregate")) =>
        /\ Len(agg_G) = num_batches
        /\ LastBatch - num_batches + 1 >= 0
        /\ \A j \in 0..(num_batches - 1) :
               agg_G[((LastBatch - j) % num_batches) + 1] =
                   FlattenGrads(epoch * train_len + LastBatch - j, MaxD)
        /\ \A i, k \in 1..num_batches : i # k => agg_G[i] # agg_G[k]

\* C19 witness: W = 2 and three batches per epoch; the round of the second
\* epoch aggregates that epoch's batches 0 and 1 (steps 3 and 4 of the run)
C19_Witness ==
    /\ JustRecorded
    /\ Has(calls, "aggregate")
    /\ num_batches = 2
    /\ train_len = 3
    /\ epoch = 1
    /\ LastBatch = 1
    /\ agg_G = <<FlattenGrads(3, MaxD), FlattenGrads(4, MaxD)>>

\* C20: the parameters of the model are changed only by the optimizer step
\* that ends a round, so no optimizer step lies between the recording of
\* the first and of the last of the W gradients one aggregation consumes:
\* all rows of an aggregated window were computed against the same version
\* of the parameters.
C20_WindowOnOneVersion ==
    [][ /\ params' # params =>
              /\ params' = params + 1
              /\ Has(calls', "aggregate")
              /\ calls'[Len(calls') - 1] = "step"
        /\ (metrics'.num_iter # metrics.num_iter /\ Has(calls', "aggregate")) =>
              /\ Len(row_params') = num_batches
              /\ \A i \in 1..num_batches : row_params'[i] = params
              /\ params' = params + 1 ]_vars

\* C20 witness: W = 2; the second round of the run has aggregated two rows
\* that were both computed after the first optimizer step and before the
\* second
C20_Witness ==
    /\ JustRecorded
    /\ RoundRan
    /\ num_batches = 2
    /\ row_params = <<1, 1>>
    /\ params = 2

====
